---- MODULE Spec2Model ----
(***************************************************************************)
(* Model of pizza-common's chunked arena (src/src/arena/mod.rs).           *)
(*                                                                         *)
(* Arena<T> owns a vector of chunks (Vec<Vec<T>>), two running counters,   *)
(* two quotas fixed by the constructor and the list of snapshot marks.     *)
(* Chunk and slot indices are 0-based as in the source; TLA+ sequences are *)
(* 1-based, so chunk index c is chunks[c + 1] and slot e is items[e + 1].  *)
(***************************************************************************)
EXTENDS Integers, Sequences, FiniteSets, TLC

\* ------------------------------------------------------------------ bounds
\* Largest initial_item_capacity handed to Arena::new (0 is included).
MaxCapacity == 2
\* Largest max_items handed to Arena::new.
MaxQuotaItems == 4
\* Largest max_memory_bytes handed to Arena::new.
MaxQuotaBytes == 5
\* Calls that change the arena (accepted alloc, store through a reference,
\* snapshot, reset) over the arena's life.
MaxCalls == 6
\* Calls that change the arena over the life of one whose readers are kept.
MaxCallsReaders == 5
\* Calls that change the arena before it is encoded for a decode.
MaxCallsEncoded == 3
\* Edits made to a Uuid's text before it is parsed.
MaxEdits == 1
\* Width in bits of the Sequencer's unsigned fields, scaled down from 32.
WordBits == 3

\* size_of::<T>() for the element types in use.
ElementSizes == {1, 4}

\* The arena never inspects a stored value (T is only Debug + Clone), so the
\* callers store pairwise distinct values: the n-th accepted value is n, as in
\* the tests' alloc(i), and a store through a reference adds Mutated to the
\* value, as the tests' push_str does.
Mutated == 100

VARIABLES
    max_items,              \* Arena.max_items
    max_memory_bytes,       \* Arena.max_memory_bytes
    chunks,                 \* Arena.chunks: sequence of [cap, items]
    snapshot_offsets,       \* Arena.snapshot_offsets: sequence of <<chunk, len>>
    total_items,            \* Arena.total_items
    total_memory_used,      \* Arena.total_memory_used
    element_size,           \* size_of::<T>()
    initial_item_capacity,  \* the argument Arena::new was called with
    result,                 \* what the last call returned
    issued,                 \* every (chunk_index, element_index, &mut T) handed out
    snapshot_log,           \* per snapshot id: items held and resets seen when taken
    resets,                 \* calls of reset() so far
    calls,                  \* calls that changed the arena so far
    held,                   \* the Ref<T> a caller keeps from get(), as <<chunk, slot>>
    iter,                   \* the ArenaIterator a caller keeps
    dec,                    \* a Deserialize of an Arena<T> in progress
    sq,                     \* a Sequencer
    uuid                    \* a Uuid, its text and what parsing the text returned

\* The arena, with what its callers were handed.
arena == <<max_items, max_memory_bytes, chunks, snapshot_offsets, total_items,
           total_memory_used, element_size, initial_item_capacity, result,
           issued, snapshot_log, resets, calls>>

\* The readers of Arena.chunks that callers keep alive.
readers == <<held, iter>>

\* What the arena's mutating methods never touch.
others == <<readers, dec, sq, uuid>>

vars == <<arena, others>>

\* ----------------------------------------------------------------- helpers
Max(a, b) == IF a >= b THEN a ELSE b

RECURSIVE Flatten(_)
\* The items of the chunks, chunks in order and slots in order.
Flatten(cs) == IF cs = <<>> THEN <<>> ELSE Head(cs).items \o Flatten(Tail(cs))

\* ------------------------------------------------------------- Vec<T> model
\* Vec::with_capacity(n): an empty vector holding room for exactly n items.
WithCapacity(n) == [cap |-> n, items |-> <<>>]

\* Vec::push: appends; a full vector first grows to
\* max(2 * cap, len + 1, the smallest non-zero capacity for the element size).
Push(chunk, value, es) ==
    IF Len(chunk.items) < chunk.cap
    THEN [chunk EXCEPT !.items = Append(@, value)]
    ELSE [cap |-> Max(Max(2 * chunk.cap, Len(chunk.items) + 1),
                      IF es = 1 THEN 8 ELSE IF es <= 1024 THEN 4 ELSE 1),
          items |-> Append(chunk.items, value)]

\* ------------------------------------------------------------ return values
NoResult == [op |-> "new", ok |-> TRUE, chunk_index |-> 0, element_index |-> 0,
             id |-> 0, err |-> <<>>, panic |-> FALSE]
\* RefCell::borrow_mut on a cell that is borrowed: panics, nothing is returned.
BorrowPanic(op) == [NoResult EXCEPT !.op = op, !.ok = FALSE, !.panic = TRUE]
AllocOk(ci, ei) == [NoResult EXCEPT !.op = "alloc", !.chunk_index = ci,
                                    !.element_index = ei]
\* format!("Arena capacity exceeded, {}/{}, {}/{}", ...)
AllocErr(ti, mi, tmu, mmb) == [NoResult EXCEPT !.op = "alloc", !.ok = FALSE,
                                               !.err = <<ti, mi, tmu, mmb>>]
SnapshotId(id) == [NoResult EXCEPT !.op = "snapshot", !.id = id]
ResetDone == [NoResult EXCEPT !.op = "reset"]
WriteDone == [NoResult EXCEPT !.op = "write"]

\* ------------------------------------------------------------ ArenaIterator
\* No iterator is kept.
NoIter == [live |-> FALSE, batch_size |-> 0, chunk_index |-> 0, item_index |-> 0,
           yielded |-> <<>>]

\* Arena::iter_with_batch_size.
IterWithBatchSize(batch_size) ==
    [live |-> TRUE, batch_size |-> batch_size, chunk_index |-> 0, item_index |-> 0,
     yielded |-> <<>>]

\* Arena::iter.
Iter == IterWithBatchSize(512)

\* The batch sizes callers pass.
BatchSizes == {0, 1, 512}

\* Whether Arena.chunks is borrowed: a Ref<T> from get() or an ArenaIterator
\* is alive.
Borrowed == held # <<>> \/ iter.live

\* ------------------------------------------------------------ Sequencer
RECURSIVE TwoTo(_)
TwoTo(n) == IF n = 0 THEN 1 ELSE 2 * TwoTo(n - 1)

\* The values of the unsigned field type are 0 .. Word - 1.
Word == TwoTo(WordBits)

\* Sequencer::new; checked says whether the build has overflow checks (debug)
\* or wraps (release). start, count and ret record what the caller saw: the
\* offset given to new, the values next has returned, and its last return.
SequencerNew(offset, step, max, checked) ==
    [offset |-> offset, step |-> step, max |-> max, checked |-> checked,
     start |-> offset, count |-> 0, ret |-> [kind |-> "new", v |-> 0]]

\* No Sequencer has been built.
NoSequencer == SequencerNew(0, 0, 0, FALSE)

\* Sequencer::current.
Current(s) == s.offset

\* Sequencer::free: max.saturating_sub(offset).
Free(s) == IF s.max >= s.offset THEN s.max - s.offset ELSE 0

\* self.offset += self.step, returning Some(current): the addition panics on
\* overflow in a checked build, before the store, and wraps otherwise.
Advance(s) ==
    IF s.offset + s.step < Word
    THEN [s EXCEPT !.offset = @ + s.step, !.count = @ + 1,
                   !.ret = [kind |-> "some", v |-> s.offset]]
    ELSE IF s.checked
    THEN [s EXCEPT !.ret = [kind |-> "panic", v |-> 0]]
    ELSE [s EXCEPT !.offset = (@ + s.step) % Word, !.count = @ + 1,
                   !.ret = [kind |-> "some", v |-> s.offset]]

\* Iterator::next for Sequencer.
SequencerNextValue(s) ==
    IF s.offset <= s.max
    THEN Advance(s)
    ELSE [s EXCEPT !.ret = [kind |-> "none", v |-> 0]]

\* A call of next; a sequencer is not used after a panic, and the number of
\* values taken from one sequencer is capped.
SequencerNext ==
    /\ sq.ret.kind # "panic"
    /\ sq.count <= Word
    /\ sq' = SequencerNextValue(sq)
    /\ UNCHANGED <<arena, readers, dec, uuid>>

\* ----------------------------------------------------------------- Uuid
UUID_LEN == 10

ASCII_LEN == UUID_LEN * 2

\* Uuid::LENGTH.
LENGTH == ASCII_LEN

\* b'0'..b'9', b'a'..b'f'.
CH_TABLE == <<48, 49, 50, 51, 52, 53, 54, 55, 56, 57, 97, 98, 99, 100, 101, 102>>

RECURSIVE BitOr(_, _)
\* a | b on unsigned values.
BitOr(a, b) ==
    IF a = 0 THEN b
    ELSE IF b = 0 THEN a
    ELSE (IF a % 2 = 1 \/ b % 2 = 1 THEN 1 ELSE 0) + 2 * BitOr(a \div 2, b \div 2)

RECURSIVE EncodeLoop(_, _, _)
\* The loop of encode from index i on.
EncodeLoop(src, i, buf) ==
    LET x == src[i + 1]
        filled == [buf EXCEPT ![i * 2 + 1] = CH_TABLE[(x \div 16) + 1],
                              ![i * 2 + 2] = CH_TABLE[(x % 16) + 1]]
    IN  IF i = 9 THEN filled ELSE EncodeLoop(src, i + 1, filled)

\* encode: [u8; UUID_LEN] to [u8; ASCII_LEN].
encode(src) == EncodeLoop(src, 0, [k \in 1..ASCII_LEN |-> 0])

HEX_TABLE_AnyCase(b) ==
    IF 48 <= b /\ b <= 57 THEN b - 48
    ELSE IF 97 <= b /\ b <= 102 THEN b - 97 + 10
    ELSE IF 65 <= b /\ b <= 70 THEN b - 65 + 10
    ELSE 255

\* HEX_TABLE[b]: the value of a lowercase hex character, 0xff for any other.
HEX_TABLE(b) ==
    IF 48 <= b /\ b <= 57 THEN b - 48
    ELSE IF 97 <= b /\ b <= 102 THEN b - 97 + 10
    ELSE 255

RECURSIVE DecodeLoop(_, _, _)
\* The loop of decode from index i on.
DecodeLoop(s, i, buf) ==
    LET h1 == HEX_TABLE(s[i * 2 + 1])
        h2 == HEX_TABLE(s[i * 2 + 2])
    IN  IF BitOr(h1, h2) = 255
        THEN [ok |-> FALSE, err |-> "character", value |-> <<>>]
        ELSE LET filled == [buf EXCEPT ![i + 1] = BitOr((h1 * 16) % 256, h2)]
             IN  IF i = 9
                 THEN [ok |-> TRUE, err |-> "", value |-> filled]
                 ELSE DecodeLoop(s, i + 1, filled)

\* decode: &[u8] to Result<[u8; UUID_LEN], ParseError>.
decode(s) ==
    IF Len(s) # LENGTH
    THEN [ok |-> FALSE, err |-> "length", value |-> <<>>]
    ELSE DecodeLoop(s, 0, [k \in 1..UUID_LEN |-> 0])

\* Bytes that between them have every high nibble and every low nibble.
ByteSamples == {16 * n + (15 - n) : n \in 0..15}

\* Bytes for the middle of a Uuid.
FillBytes == {0, 168, 255}

\* Bytes of a &str next to and inside the hex ranges: / 0 9 : A F ` a f g and
\* the first byte of a two-byte character.
CharSamples == {47, 48, 57, 58, 65, 70, 96, 97, 102, 103, 195}

\* Where a text is edited: its first two and last two bytes.
EditPositions == {1, 2, ASCII_LEN - 1, ASCII_LEN}

\* A Uuid of the given bytes that has not been formatted.
UuidOf(bytes) == [phase |-> "new", value |-> bytes, text |-> <<>>, edits |-> 0,
                  out |-> <<>>]

\* No Uuid has been built.
NoUuid == UuidOf(<<>>)

\* Display for Uuid: encode_with writes the encoded bytes as they are.
UuidFormat ==
    /\ uuid.phase = "new"
    /\ uuid.value # <<>>
    /\ uuid' = [uuid EXCEPT !.phase = "text", !.text = encode(uuid.value)]
    /\ UNCHANGED <<arena, readers, dec, sq>>

\* The caller changes the text before parsing it: one byte replaced, the last
\* byte dropped, or a byte added.
UuidEdit ==
    /\ uuid.phase = "text"
    /\ uuid.edits < MaxEdits
    /\ \/ \E p \in EditPositions \cap (1..Len(uuid.text)), ch \in CharSamples :
             uuid' = [uuid EXCEPT !.text[p] = ch, !.edits = @ + 1]
       \/ /\ uuid.text # <<>>
          /\ uuid' = [uuid EXCEPT !.text = SubSeq(@, 1, Len(@) - 1), !.edits = @ + 1]
       \/ \E ch \in CharSamples :
             uuid' = [uuid EXCEPT !.text = Append(@, ch), !.edits = @ + 1]
    /\ UNCHANGED <<arena, readers, dec, sq>>

\* Uuid::from_str on the text.
UuidFromStr ==
    /\ uuid.phase = "text"
    /\ uuid' = [uuid EXCEPT !.phase = "parsed", !.out = <<decode(uuid.text)>>]
    /\ UNCHANGED <<arena, readers, dec, sq>>

\* ------------------------------------------------------------ Arena::new
ArenaNew ==
    /\ initial_item_capacity \in 0..MaxCapacity
    /\ max_items \in 0..MaxQuotaItems
    /\ max_memory_bytes \in 0..MaxQuotaBytes
    /\ element_size \in ElementSizes
    /\ chunks = <<WithCapacity(initial_item_capacity)>>
    /\ snapshot_offsets = <<>>
    /\ total_items = 0
    /\ total_memory_used = 0
    /\ result = NoResult
    /\ issued = <<>>
    /\ snapshot_log = <<>>
    /\ resets = 0
    /\ calls = 0

\* No Ref and no iterator is kept.
NoReaders ==
    /\ held = <<>>
    /\ iter = NoIter

\* ------------------------------------------------- Arena::advanced_alloc
\* Mutants of the quota test: the byte test made strict, the item test lax.
QuotaOkStrictBytes(ti, tmu, es, mi, mmb) == ti < mi /\ tmu + es < mmb
QuotaOkLaxItems(ti, tmu, es, mi, mmb) == ti <= mi /\ tmu + es <= mmb
QuotaOkIgnoresBytes(ti, tmu, es, mi, mmb) == ti < mi
QuotaOkBeforeAdd(ti, tmu, es, mi, mmb) == ti < mi /\ tmu <= mmb

\* The quota test of advanced_alloc.
QuotaOk(ti, tmu, es, mi, mmb) == ti < mi /\ tmu + es <= mmb

\* Mutant: a new chunk is started while one slot is still free.
HasSpareEarly(chunk) == Len(chunk.items) + 1 < chunk.cap
\* Mutant: a full chunk is pushed to once more.
HasSpareLax(chunk) == Len(chunk.items) <= chunk.cap

\* Whether the last chunk takes one more item.
HasSpare(chunk) == Len(chunk.items) < chunk.cap

\* Capacity asked for the chunk that follows one of capacity cap.
NewCapacity(cap) == cap * 2

\* Mutant: the slot index returned is the chunk's length after the push.
PlaceLenIndex(cs, value, es) ==
    LET last_index == Len(cs) - 1
        last == cs[last_index + 1]
    IN  IF Len(last.items) < last.cap
        THEN LET pushed == [last EXCEPT !.items = Append(@, value)]
             IN  [chunks |-> [cs EXCEPT ![last_index + 1] = pushed],
                  chunk_index |-> last_index,
                  element_index |-> Len(pushed.items)]
        ELSE LET new_chunk == [cap |-> last.cap * 2, items |-> <<value>>]
                 grown == Append(cs, new_chunk)
             IN  [chunks |-> grown,
                  chunk_index |-> Len(grown) - 1,
                  element_index |-> 0]

\* The chunks after placing value, and the indices returned.
PlaceStaleChunkIndex(cs, value, es) ==
    LET last_index == Len(cs) - 1
        last == cs[last_index + 1]
    IN  IF HasSpare(last)
        THEN LET pushed == Push(last, value, es)
             IN  [chunks |-> [cs EXCEPT ![last_index + 1] = pushed],
                  chunk_index |-> last_index,
                  element_index |-> Len(pushed.items) - 1]
        ELSE LET new_chunk == Push(WithCapacity(NewCapacity(last.cap)), value, es)
                 grown == Append(cs, new_chunk)
             IN  [chunks |-> grown,
                  chunk_index |-> last_index,
                  element_index |-> 0]

Place(cs, value, es) ==
    LET last_index == Len(cs) - 1
        last == cs[last_index + 1]
    IN  IF HasSpare(last)
        THEN LET pushed == Push(last, value, es)
             IN  [chunks |-> [cs EXCEPT ![last_index + 1] = pushed],
                  chunk_index |-> last_index,
                  element_index |-> Len(pushed.items) - 1]
        ELSE LET new_chunk == Push(WithCapacity(NewCapacity(last.cap)), value, es)
                 grown == Append(cs, new_chunk)
             IN  [chunks |-> grown,
                  chunk_index |-> Len(grown) - 1,
                  element_index |-> 0]

AllocAccepted(value) ==
    LET p == Place(chunks, value, element_size)
    IN  /\ calls < MaxCalls
        /\ calls' = calls + 1
        /\ chunks' = p.chunks
        /\ total_items' = total_items + 1
        /\ total_memory_used' = total_memory_used + element_size
        /\ result' = AllocOk(p.chunk_index, p.element_index)
        /\ issued' = Append(issued, [chunk_index |-> p.chunk_index,
                                     element_index |-> p.element_index,
                                     value |-> value, resets |-> resets])
        /\ UNCHANGED <<max_items, max_memory_bytes, snapshot_offsets, element_size,
                       initial_item_capacity, snapshot_log, resets>>
        /\ UNCHANGED others

\* chunks.borrow_mut() at the top of advanced_alloc finds chunks borrowed.
AllocPanic ==
    /\ result' = BorrowPanic("alloc")
    /\ UNCHANGED <<max_items, max_memory_bytes, chunks, snapshot_offsets, total_items,
                   total_memory_used, element_size, initial_item_capacity, issued,
                   snapshot_log, resets, calls>>
    /\ UNCHANGED others

AllocRejected ==
    /\ result' = AllocErr(total_items, max_items, total_memory_used, max_memory_bytes)
    /\ UNCHANGED <<max_items, max_memory_bytes, chunks, snapshot_offsets, total_items,
                   total_memory_used, element_size, initial_item_capacity, issued,
                   snapshot_log, resets, calls>>
    /\ UNCHANGED others

Alloc ==
    LET value == Len(issued) + 1
    IN  IF Borrowed
        THEN AllocPanic
        ELSE IF QuotaOk(total_items, total_memory_used, element_size, max_items,
                        max_memory_bytes)
             THEN AllocAccepted(value)
             ELSE AllocRejected

\* --------------------------------------- writing through a returned &mut T
\* The reference advanced_alloc returned points at slot element_index of chunk
\* chunk_index; the caller stores a new value through it.  Only references
\* handed out since the last reset are written through: reset() frees the
\* buffers the older ones point into.
Write ==
    \E i \in 1..Len(issued) :
        LET h == issued[i]
            value == h.value + Mutated
        IN  /\ calls < MaxCalls
            /\ h.resets = resets
            /\ chunks' = [chunks EXCEPT
                  ![h.chunk_index + 1].items[h.element_index + 1] = value]
            /\ issued' = [issued EXCEPT ![i].value = value]
            /\ result' = WriteDone
            /\ calls' = calls + 1
            /\ UNCHANGED <<max_items, max_memory_bytes, snapshot_offsets, total_items,
                           total_memory_used, element_size, initial_item_capacity,
                           snapshot_log, resets>>
            /\ UNCHANGED others

\* ------------------------------------------------- ArenaIterator::next
NextChunkKeepsIndex(it) == [it EXCEPT !.chunk_index = @ + 1]

\* The else branch of next: move to the first item of the next chunk.
NextChunk(it) == [it EXCEPT !.chunk_index = @ + 1, !.item_index = 0]

RECURSIVE ArenaIteratorNext(_, _)
\* The loop of next: item is Some(value) as <<value>> or None as <<>>, iter is
\* the iterator afterwards; yielded lists the slots handed out so far.
ArenaIteratorNext(cs, it) ==
    IF it.chunk_index >= Len(cs)
    THEN [item |-> <<>>, iter |-> it]
    ELSE LET chunk == cs[it.chunk_index + 1].items
         IN  IF it.item_index < Len(chunk)
             THEN [item |-> <<chunk[it.item_index + 1]>>,
                   iter |-> [it EXCEPT !.item_index = @ + 1,
                                       !.yielded = Append(@, <<it.chunk_index,
                                                               it.item_index>>)]]
             ELSE ArenaIteratorNext(cs, NextChunk(it))

\* ---------------------------------------------------------- Arena::get
\* Some(value) is <<value>>, None is <<>>.
GetShortChunk(cs, chunk_index, element_index) ==
    IF chunk_index < Len(cs)
    THEN IF element_index + 1 < Len(cs[chunk_index + 1].items)
         THEN <<cs[chunk_index + 1].items[element_index + 1]>>
         ELSE <<>>
    ELSE <<>>

Get(cs, chunk_index, element_index) ==
    IF chunk_index < Len(cs)
    THEN IF element_index < Len(cs[chunk_index + 1].items)
         THEN <<cs[chunk_index + 1].items[element_index + 1]>>
         ELSE <<>>
    ELSE <<>>

\* ------------------------------------------------------- Arena::snapshot
SnapshotMark(cs) ==
    LET last_chunk_index == Len(cs) - 1
    IN  <<last_chunk_index, Len(cs[last_chunk_index + 1].items)>>

Snapshot ==
    /\ calls < MaxCalls
    /\ calls' = calls + 1
    /\ snapshot_offsets' = Append(snapshot_offsets, SnapshotMark(chunks))
    /\ result' = SnapshotId(Len(snapshot_offsets') - 1)
    /\ snapshot_log' = Append(snapshot_log, [items |-> total_items, resets |-> resets,
                                             issued |-> Len(issued)])
    /\ UNCHANGED <<max_items, max_memory_bytes, chunks, total_items, total_memory_used,
                   element_size, initial_item_capacity, issued, resets>>
    /\ UNCHANGED others

\* --------------------------------------------------- Arena::get_snapshot
\* Mutant: the marked chunk is taken at its current length.
GetSnapshotWholeChunk(cs, offsets, snapshot) ==
    IF snapshot >= Len(offsets)
    THEN [panic |-> TRUE, items |-> <<>>]
    ELSE LET last_chunk_index == offsets[snapshot + 1][1]
         IN  IF last_chunk_index >= Len(cs)
             THEN [panic |-> TRUE, items |-> <<>>]
             ELSE [panic |-> FALSE,
                   items |-> Flatten(SubSeq(cs, 1, last_chunk_index + 1))]

\* Indexing past the end of snapshot_offsets or of chunks panics.
GetSnapshot(cs, offsets, snapshot) ==
    IF snapshot >= Len(offsets)
    THEN [panic |-> TRUE, items |-> <<>>]
    ELSE LET last_chunk_index == offsets[snapshot + 1][1]
             last_chunk_len == offsets[snapshot + 1][2]
         IN  IF last_chunk_index >= Len(cs)
             THEN [panic |-> TRUE, items |-> <<>>]
             ELSE LET last_chunk == cs[last_chunk_index + 1].items
                      taken == IF last_chunk_len < Len(last_chunk)
                               THEN last_chunk_len ELSE Len(last_chunk)
                  IN  [panic |-> FALSE,
                       items |-> Flatten(SubSeq(cs, 1, last_chunk_index))
                                 \o SubSeq(last_chunk, 1, taken)]

\* ---------------------------------------------------------- Arena::reset
\* Mutant: the first chunk gets the constructor's capacity again.
ResetChunksInitial == <<WithCapacity(initial_item_capacity)>>

ResetChunks == <<WithCapacity(1)>>

\* Mutant: total_memory_used is left as it was.
ResetKeepsMemory ==
    /\ calls < MaxCalls
    /\ calls' = calls + 1
    /\ chunks' = ResetChunks
    /\ total_items' = 0
    /\ result' = ResetDone
    /\ resets' = resets + 1
    /\ UNCHANGED <<max_items, max_memory_bytes, snapshot_offsets, element_size,
                   initial_item_capacity, issued, snapshot_log, total_memory_used>>
    /\ UNCHANGED others

\* Mutant: the snapshot marks are dropped with the chunks.
ResetClearsSnapshots ==
    /\ calls < MaxCalls
    /\ calls' = calls + 1
    /\ chunks' = ResetChunks
    /\ total_items' = 0
    /\ total_memory_used' = 0
    /\ result' = ResetDone
    /\ resets' = resets + 1
    /\ snapshot_offsets' = <<>>
    /\ UNCHANGED <<max_items, max_memory_bytes, element_size,
                   initial_item_capacity, issued, snapshot_log>>
    /\ UNCHANGED others

\* chunks.borrow_mut() at the top of reset finds chunks borrowed.
ResetPanic ==
    /\ result' = BorrowPanic("reset")
    /\ UNCHANGED <<max_items, max_memory_bytes, chunks, snapshot_offsets, total_items,
                   total_memory_used, element_size, initial_item_capacity, issued,
                   snapshot_log, resets, calls>>
    /\ UNCHANGED others

ResetRuns ==
    /\ calls < MaxCalls
    /\ calls' = calls + 1
    /\ chunks' = ResetChunks
    /\ total_items' = 0
    /\ total_memory_used' = 0
    /\ result' = ResetDone
    /\ resets' = resets + 1
    /\ UNCHANGED <<max_items, max_memory_bytes, snapshot_offsets, element_size,
                   initial_item_capacity, issued, snapshot_log>>
    /\ UNCHANGED others

Reset == IF Borrowed THEN ResetPanic ELSE ResetRuns

\* --------------------------------------------- Serialize and Deserialize
\* FIELDS, in the order of the struct.
Fields == <<"max_items", "max_memory_bytes", "chunks", "snapshot_offsets",
            "total_items", "total_memory_used">>

FieldNames == {Fields[i] : i \in 1..Len(Fields)}

ChunkItemsSkipEmpty(cs) ==
    LET kept == SelectSeq(cs, LAMBDA c : c.items # <<>>)
    IN  [i \in 1..Len(kept) |-> kept[i].items]

\* A Vec<Vec<T>> as serde writes it: a list of lists, capacities are not data.
ChunkItems(cs) == [i \in 1..Len(cs) |-> cs[i].items]

\* Serialize for Arena<T>: the six fields of serialize_struct, in order.
Encode(mi, mmb, cs, offsets, ti, tmu) ==
    << <<"max_items", mi>>, <<"max_memory_bytes", mmb>>,
       <<"chunks", ChunkItems(cs)>>, <<"snapshot_offsets", offsets>>,
       <<"total_items", ti>>, <<"total_memory_used", tmu>> >>

\* The visitor's six Option locals before the first key, and no error.
NoFields == [seen |-> [f \in FieldNames |-> <<>>], err |-> <<>>]

\* One turn of the while loop of visit_map: the key goes through
\* FieldVisitor::visit_str, then the match arm stores the value.
VisitEntryIgnoresUnknown(acc, key, value) ==
    IF acc.err # <<>> THEN acc
    ELSE IF key \notin FieldNames
    THEN acc
    ELSE IF acc.seen[key] # <<>>
    THEN [acc EXCEPT !.err = <<"duplicate_field", key>>]
    ELSE [acc EXCEPT !.seen[key] = <<value>>]

VisitEntry(acc, key, value) ==
    IF acc.err # <<>> THEN acc
    ELSE IF key \notin FieldNames
    THEN [acc EXCEPT !.err = <<"unknown_field", key>>]
    ELSE IF acc.seen[key] # <<>>
    THEN [acc EXCEPT !.err = <<"duplicate_field", key>>]
    ELSE [acc EXCEPT !.seen[key] = <<value>>]

RECURSIVE VisitMap(_, _)
\* The while loop of visit_map over the entries of the map.
VisitMap(acc, entries) ==
    IF entries = <<>> THEN acc
    ELSE VisitMap(VisitEntry(acc, Head(entries)[1], Head(entries)[2]),
                  Tail(entries))

RECURSIVE DecodeVec(_, _)
\* A Vec<T> read element by element.
DecodeVec(items, es) ==
    IF items = <<>> THEN WithCapacity(0)
    ELSE Push(DecodeVec(SubSeq(items, 1, Len(items) - 1), es),
              items[Len(items)], es)

\* After the loop: the first absent field in the order of the ok_or_else
\* lines is the error, otherwise the Arena is built.
Finish(acc, es) ==
    LET missing == {i \in 1..Len(Fields) : acc.seen[Fields[i]] = <<>>}
        first == CHOOSE i \in missing : \A j \in missing : i <= j
    IN  IF acc.err # <<>> THEN [ok |-> FALSE, err |-> acc.err, arena |-> <<>>]
        ELSE IF missing # {}
        THEN [ok |-> FALSE, err |-> <<"missing_field", Fields[first]>>,
              arena |-> <<>>]
        ELSE [ok |-> TRUE, err |-> <<>>,
              arena |-> << [max_items |-> acc.seen["max_items"][1],
                            max_memory_bytes |-> acc.seen["max_memory_bytes"][1],
                            chunks |-> [i \in 1..Len(acc.seen["chunks"][1]) |->
                                           DecodeVec(acc.seen["chunks"][1][i], es)],
                            snapshot_offsets |-> acc.seen["snapshot_offsets"][1],
                            total_items |-> acc.seen["total_items"][1],
                            total_memory_used |-> acc.seen["total_memory_used"][1]] >>]

\* Deserialize for Arena<T> on a map of entries.
Decode(entries, es) == Finish(VisitMap(NoFields, entries), es)

\* A key that is none of the six.
UnknownKeys == {"capacity"}

Keys == FieldNames \cup UnknownKeys

\* No deserialization has started; fed counts the keys the map has given.
NoDecoder == [phase |-> "idle", acc |-> NoFields, fed |-> [k \in Keys |-> 0],
              out |-> <<>>]

\* The value the arena's encoding carries under a key.
EncodedValue(key) ==
    LET entries == Encode(max_items, max_memory_bytes, chunks, snapshot_offsets,
                          total_items, total_memory_used)
        at == {i \in 1..Len(entries) : entries[i][1] = key}
    IN  IF at = {} THEN 0 ELSE entries[CHOOSE i \in at : TRUE][2]

\* map.next_key() gives a key: one turn of the loop of visit_map, which
\* returns at once when the turn is an error.
VisitKey ==
    \E key \in Keys :
        LET acc == VisitEntry(dec.acc, key, EncodedValue(key))
            fed == [dec.fed EXCEPT ![key] = @ + 1]
        IN  /\ dec.phase \in {"idle", "map"}
            /\ dec' = IF acc.err # <<>>
                      THEN [phase |-> "done", acc |-> acc, fed |-> fed,
                            out |-> <<Finish(acc, element_size)>>]
                      ELSE [phase |-> "map", acc |-> acc, fed |-> fed,
                            out |-> <<>>]
            /\ UNCHANGED <<arena, readers, sq, uuid>>

\* map.next_key() gives None: the rest of visit_map.
MapEnd ==
    /\ dec.phase \in {"idle", "map"}
    /\ dec' = [dec EXCEPT !.phase = "done",
                          !.out = <<Finish(dec.acc, element_size)>>]
    /\ UNCHANGED <<arena, readers, sq, uuid>>

\* ------------------------------------------------- readers of Arena.chunks
\* get(chunk_index, element_index) returned Some and the caller keeps the Ref.
GetKept ==
    \E chunk_index \in 0..(Len(chunks) - 1) :
        \E element_index \in 0..(Len(chunks[chunk_index + 1].items) - 1) :
            /\ held = <<>>
            /\ Get(chunks, chunk_index, element_index) # <<>>
            /\ held' = <<chunk_index, element_index>>
            /\ UNCHANGED <<arena, iter, dec, sq, uuid>>

\* The caller drops the Ref.
RefDrop ==
    /\ held # <<>>
    /\ held' = <<>>
    /\ UNCHANGED <<arena, iter, dec, sq, uuid>>

\* iter(), the iterator kept by the caller.
IterNew ==
    /\ ~iter.live
    /\ iter' = Iter
    /\ UNCHANGED <<arena, held, dec, sq, uuid>>

\* ArenaIterator::next on the kept iterator.
IterNext ==
    /\ iter.live
    /\ iter' = ArenaIteratorNext(chunks, iter).iter
    /\ iter' # iter
    /\ UNCHANGED <<arena, held, dec, sq, uuid>>

\* The caller drops the iterator.
IterDrop ==
    /\ iter.live
    /\ iter' = NoIter
    /\ UNCHANGED <<arena, held, dec, sq, uuid>>

\* ------------------------------------------------------- what callers saw
\* The references handed out since the last reset, oldest first.
Live == SelectSeq(issued, LAMBDA h : h.resets = resets)

\* The values stored since the last reset, in insertion order, each as last
\* written through its reference.
LiveValues == [i \in 1..Len(Live) |-> Live[i].value]

\* ------------------------------------------------------------------ claims
RECURSIVE SumLen(_)
\* Sum over chunks of chunk.len().
SumLen(cs) == IF cs = <<>> THEN 0 ELSE Len(Head(cs).items) + SumLen(Tail(cs))

RECURSIVE Pow2(_)
Pow2(k) == IF k = 0 THEN 1 ELSE 2 * Pow2(k - 1)

\* C1: in every reachable state total_items is the sum of the chunks' lengths
\* and total_memory_used is total_items * element_size.
C1_CountersMatchChunks ==
    /\ total_items = SumLen(chunks)
    /\ total_memory_used = total_items * element_size

\* C1 witness: items are held after a reset, a snapshot was taken and the last
\* call was a rejected alloc.
C1_Witness ==
    /\ result.op = "alloc" /\ ~result.ok
    /\ resets >= 1
    /\ snapshot_offsets # <<>>
    /\ total_items >= 1
    /\ element_size > 1

\* C2: alloc is accepted exactly when total_items < max_items and
\* total_memory_used + element_size <= max_memory_bytes held before the call;
\* a rejected alloc returns the four current/limit values and leaves chunks,
\* total_items, total_memory_used and snapshot_offsets as they were.
C2_AllocIffQuota ==
    [][result'.op = "alloc" =>
        /\ result'.ok <=> (/\ total_items < max_items
                           /\ total_memory_used + element_size <= max_memory_bytes)
        /\ result'.ok => total_items' = total_items + 1
        /\ ~result'.ok =>
              /\ result'.err = <<total_items, max_items, total_memory_used,
                                 max_memory_bytes>>
              /\ UNCHANGED <<chunks, total_items, total_memory_used,
                             snapshot_offsets>>]_vars

\* C2 witness: an alloc was rejected on the byte quota alone, with items held
\* and a snapshot recorded.
C2_Witness ==
    /\ result.op = "alloc" /\ ~result.ok
    /\ total_items >= 1
    /\ total_items < max_items
    /\ total_memory_used + element_size = max_memory_bytes + 1
    /\ snapshot_offsets # <<>>

\* C3: with no reset since snapshot id was taken at n items, get_snapshot(id)
\* returns exactly the first n values in insertion order, whatever was
\* allocated or snapshotted since.
C3_SnapshotReadStable ==
    \A id \in 0..(Len(snapshot_offsets) - 1) :
        snapshot_log[id + 1].resets = resets =>
            GetSnapshot(chunks, snapshot_offsets, id) =
                [panic |-> FALSE,
                 items |-> SubSeq(LiveValues, 1, snapshot_log[id + 1].items)]

\* C3 witness: a snapshot taken in a partly filled chunk, which later filled up
\* and was followed by a new chunk.
C3_Witness ==
    \E id \in 0..(Len(snapshot_offsets) - 1) :
        /\ snapshot_log[id + 1].resets = resets
        /\ snapshot_log[id + 1].items >= 1
        /\ snapshot_offsets[id + 1][2] < Len(chunks[snapshot_offsets[id + 1][1] + 1].items)
        /\ snapshot_offsets[id + 1][1] + 1 < Len(chunks)

\* C4: with no reset since, get(chunk_index, slot_index) on a handle that
\* advanced_alloc returned gives the value stored by that alloc, or the value
\* last written through the reference it returned.
C4_HandleStable ==
    \A i \in 1..Len(issued) :
        issued[i].resets = resets =>
            Get(chunks, issued[i].chunk_index, issued[i].element_index)
                = <<issued[i].value>>

\* C4 witness: a handle into the first chunk, written through, with two
\* chunks created after it.
C4_Witness ==
    \E i \in 1..Len(issued) :
        /\ issued[i].resets = resets
        /\ issued[i].chunk_index = 0
        /\ issued[i].value > Mutated
        /\ Len(chunks) >= 3

\* C5: a chunk that alloc creates has exactly twice the capacity of the chunk
\* that was last before the call, and while no reset has happened chunk k has
\* capacity initial_item_capacity * 2^k.
C5_CapacityDoubles ==
    /\ [](resets = 0 =>
            \A k \in 0..(Len(chunks) - 1) :
                chunks[k + 1].cap = initial_item_capacity * Pow2(k))
    /\ [][Len(chunks') = Len(chunks) + 1 =>
            chunks'[Len(chunks')].cap = 2 * chunks[Len(chunks)].cap]_vars

\* C6: every chunk holds at most its capacity, whatever the constructor was
\* given, and a chunk is added only when the last chunk's length equals its
\* capacity.
C6_LenWithinCapacity ==
    /\ [](\A c \in 1..Len(chunks) : Len(chunks[c].items) <= chunks[c].cap)
    /\ [][Len(chunks') > Len(chunks) =>
            Len(chunks[Len(chunks)].items) = chunks[Len(chunks)].cap]_vars

\* C6 witness: an arena built with capacity 0 holds two items in its second
\* chunk.
C6_Witness ==
    /\ initial_item_capacity = 0
    /\ Len(chunks) = 2
    /\ Len(chunks[2].items) >= 2

\* C7: after N accepted allocations into a fresh arena of initial capacity C0
\* and no reset, total_items is N and total_chunks is the least chunk count k
\* (an arena always has one chunk, so k >= 1) with C0 * (2^k - 1) >= N.
C7_GrowthCount ==
    resets = 0 =>
        LET N == Len(issued)
            C0 == initial_item_capacity
        IN  /\ total_items = N
            /\ \E k \in 1..(N + 1) :
                  /\ Len(chunks) = k
                  /\ C0 * (Pow2(k) - 1) >= N
                  /\ \A j \in 1..(k - 1) : C0 * (Pow2(j) - 1) < N

\* C8 as stated: an alloc that would bring total_items to max_items, or
\* total_memory_used past max_memory_bytes, is rejected and leaves counters
\* and chunks as they were.
C8_RejectsAtMaxItems ==
    [][(/\ result'.op = "alloc"
        /\ \/ total_items + 1 >= max_items
           \/ total_memory_used + element_size > max_memory_bytes)
        => /\ ~result'.ok
           /\ UNCHANGED <<chunks, total_items, total_memory_used>>]_vars

\* C8 amended: an alloc that would bring total_items past max_items, or
\* total_memory_used past max_memory_bytes, is rejected and leaves counters
\* and chunks as they were.
C8_RejectsPastMaxItems ==
    [][(/\ result'.op = "alloc"
        /\ \/ total_items + 1 > max_items
           \/ total_memory_used + element_size > max_memory_bytes)
        => /\ ~result'.ok
           /\ UNCHANGED <<chunks, total_items, total_memory_used>>]_vars

\* C8 witness: the arena was filled to max_items over two chunks and the next
\* alloc was rejected on the item quota alone.
C8_Witness ==
    /\ result.op = "alloc" /\ ~result.ok
    /\ total_items = max_items
    /\ Len(chunks) >= 2
    /\ total_memory_used + element_size <= max_memory_bytes

C10_SnapshotsAppendOnly ==
    [][/\ Len(snapshot_offsets) <= Len(snapshot_offsets')
       /\ SubSeq(snapshot_offsets', 1, Len(snapshot_offsets)) = snapshot_offsets
       /\ Len(snapshot_log') = Len(snapshot_log) + 1 =>
             /\ result'.op = "snapshot"
             /\ result'.id = Len(snapshot_log)
             /\ snapshot_offsets' =
                   Append(snapshot_offsets,
                          <<Len(chunks) - 1, Len(chunks[Len(chunks)].items)>>)]_vars

\* C10 witness: a snapshot taken with items held, then a reset, then the
\* snapshot that just returned.
C10_Witness ==
    /\ result.op = "snapshot"
    /\ result.id = Len(snapshot_offsets) - 1
    /\ result.id >= 1
    /\ resets >= 1
    /\ snapshot_log[1].resets = 0
    /\ snapshot_log[1].items >= 1

\* C11: get(chunk_index, slot_index) returns the value stored at that slot
\* exactly when chunk_index < total_chunks and slot_index < that chunk's
\* length, and None for every other pair; a get changes no field of the arena.
C11_GetInBounds ==
    /\ [](\A chunk_index \in 0..(Len(chunks) + 1) :
            \A slot_index \in 0..(total_items + 1) :
                IF /\ chunk_index < Len(chunks)
                   /\ slot_index < Len(chunks[chunk_index + 1].items)
                THEN \E i \in 1..Len(Live) :
                        /\ Live[i].chunk_index = chunk_index
                        /\ Live[i].element_index = slot_index
                        /\ Get(chunks, chunk_index, slot_index) = <<Live[i].value>>
                ELSE Get(chunks, chunk_index, slot_index) = <<>>)
    /\ [][held' # held /\ held' # <<>> =>
            /\ held'[1] < Len(chunks)
            /\ held'[2] < Len(chunks[held'[1] + 1].items)
            /\ UNCHANGED arena]_vars

\* C11 witness: after a reset, a get of a written slot of the second chunk
\* returned a value that the caller still holds.
C11_Witness ==
    /\ held # <<>>
    /\ held[1] = 1
    /\ resets >= 1
    /\ Get(chunks, held[1], held[2]) # <<>>
    /\ Get(chunks, held[1], held[2])[1] > Mutated

RECURSIVE Drain(_, _)
\* The values that next() returns until it returns None.
Drain(cs, it) ==
    LET n == ArenaIteratorNext(cs, it)
    IN  IF n.item = <<>> THEN <<>> ELSE n.item \o Drain(cs, n.iter)

\* C12: an iterator from iter() or iter_with_batch_size(b), whenever it is
\* created, returns the stored values once each in insertion order,
\* total_items of them, and then None; an iterator that is part-way through
\* has returned the first slots in insertion order and returns None exactly
\* when it has returned total_items values.
C12_IterInsertionOrder ==
    /\ \A it \in {Iter} \cup {IterWithBatchSize(b) : b \in BatchSizes} :
          /\ Drain(chunks, it) = LiveValues
          /\ Len(Drain(chunks, it)) = total_items
    /\ iter.live =>
          /\ Len(iter.yielded) <= Len(Live)
          /\ \A i \in 1..Len(iter.yielded) :
                iter.yielded[i] = <<Live[i].chunk_index, Live[i].element_index>>
          /\ (ArenaIteratorNext(chunks, iter).item = <<>>)
                <=> (Len(iter.yielded) = total_items)

\* C12 witness: a kept iterator has returned every value of an arena that
\* was built with capacity 0, holds three values in its second chunk and had
\* one of them written, and its next() returns None.
C12_Witness ==
    /\ iter.live
    /\ initial_item_capacity = 0
    /\ resets = 0
    /\ total_items >= 3
    /\ Len(iter.yielded) = total_items
    /\ \E i \in 1..Len(Live) : Live[i].value > Mutated
    /\ ArenaIteratorNext(chunks, iter).item = <<>>

\* C13: the arena decoded from an arena's encoding has the same iteration
\* sequence, total_items, total_memory_used, max_items and max_memory_bytes,
\* and get_snapshot(id) behaves the same on both for every recorded id.
C13_RoundTrip ==
    LET d == Decode(Encode(max_items, max_memory_bytes, chunks, snapshot_offsets,
                           total_items, total_memory_used), element_size)
    IN  /\ d.ok
        /\ Drain(d.arena[1].chunks, Iter) = Drain(chunks, Iter)
        /\ d.arena[1].total_items = total_items
        /\ d.arena[1].total_memory_used = total_memory_used
        /\ d.arena[1].max_items = max_items
        /\ d.arena[1].max_memory_bytes = max_memory_bytes
        /\ \A id \in 0..(Len(snapshot_offsets) - 1) :
              GetSnapshot(d.arena[1].chunks, d.arena[1].snapshot_offsets, id)
                  = GetSnapshot(chunks, snapshot_offsets, id)

\* C13 witness: an arena built with capacity 0 whose first chunk is empty,
\* with a written value and two snapshots that return different lists.
C13_Witness ==
    /\ initial_item_capacity = 0
    /\ resets = 0
    /\ total_items >= 2
    /\ \E i \in 1..Len(Live) : Live[i].value > Mutated
    /\ Len(snapshot_offsets) >= 2
    /\ ~GetSnapshot(chunks, snapshot_offsets, 1).panic
    /\ GetSnapshot(chunks, snapshot_offsets, 0)
          # GetSnapshot(chunks, snapshot_offsets, 1)

\* C14: a decode ends with an arena exactly when the map gave each of the six
\* fields once and nothing else; otherwise it ends with no arena and an error
\* naming a field that is unknown, was repeated or is absent; no arena exists
\* before the decode ends.
C14_DecodeStrict ==
    IF dec.phase = "done"
    THEN LET out == dec.out[1]
         IN  IF /\ \A f \in FieldNames : dec.fed[f] = 1
                /\ \A k \in Keys \ FieldNames : dec.fed[k] = 0
             THEN out.ok /\ out.arena # <<>>
             ELSE /\ ~out.ok
                  /\ out.arena = <<>>
                  /\ \/ /\ out.err[1] = "unknown_field"
                        /\ out.err[2] \in Keys \ FieldNames
                        /\ dec.fed[out.err[2]] >= 1
                     \/ /\ out.err[1] = "duplicate_field"
                        /\ out.err[2] \in FieldNames
                        /\ dec.fed[out.err[2]] >= 2
                     \/ /\ out.err[1] = "missing_field"
                        /\ out.err[2] \in FieldNames
                        /\ dec.fed[out.err[2]] = 0
    ELSE dec.out = <<>>

\* C14 witness: decoding the encoding of an arena that holds items stopped at
\* an unknown key after five of the six fields had been read.
C14_Witness ==
    /\ dec.phase = "done"
    /\ total_items >= 1
    /\ ~dec.out[1].ok
    /\ dec.out[1].err[1] = "unknown_field"
    /\ Cardinality({f \in FieldNames : dec.fed[f] = 1}) = 5

\* With a reader alive, a step that is an alloc or a reset panics on the
\* borrow and leaves every field as it was, and a snapshot does not panic.
FailsFastWhileBorrowed ==
    Borrowed /\ result' # result =>
        /\ result'.op \in {"alloc", "reset"} =>
              /\ result'.panic
              /\ UNCHANGED <<max_items, max_memory_bytes, chunks, snapshot_offsets,
                             total_items, total_memory_used>>
        /\ result'.op = "snapshot" =>
              /\ ~result'.panic
              /\ Len(snapshot_offsets') = Len(snapshot_offsets) + 1

\* C15: while an ArenaIterator or a value returned by get is alive, alloc and
\* reset fail on the borrow before changing any field, snapshot still
\* succeeds, and chunks is not mutated.
C15_NoMutationWhileBorrowed ==
    [][FailsFastWhileBorrowed /\ (Borrowed => chunks' = chunks)]_vars

\* C15, the part about the arena's own methods: with a reader alive, alloc
\* and reset panic with every field unchanged and snapshot succeeds.
C15_MethodsFailFast == [][FailsFastWhileBorrowed]_vars

\* A reset has just panicked while a Ref from get and an iterator were alive.
C15_Witness ==
    /\ held # <<>>
    /\ iter.live
    /\ result.op = "reset"
    /\ result.panic
    /\ total_items >= 2

\* C16: no arena is built with initial capacity 0, no chunk has capacity 0,
\* and no accepted alloc starts from a last chunk of capacity 0.
C16_NoZeroCapacity ==
    /\ [](/\ initial_item_capacity # 0
          /\ \A c \in 1..Len(chunks) : chunks[c].cap # 0)
    /\ [][result'.op = "alloc" /\ result'.ok /\ total_items' = total_items + 1
            => chunks[Len(chunks)].cap # 0]_vars

\* C17: every handle that alloc has returned, before or after any alloc,
\* snapshot or reset, still reads through get as the value stored under it or
\* the latest value written through its reference.
C17_HandleOutlivesReset ==
    \A i \in 1..Len(issued) :
        Get(chunks, issued[i].chunk_index, issued[i].element_index)
            = <<issued[i].value>>

\* C18: whatever allocs, snapshots and resets have run, a get_snapshot(id)
\* that returns holds no value that was allocated after snapshot id was
\* recorded.
C18_SnapshotHoldsNoLaterValue ==
    \A id \in 0..(Len(snapshot_offsets) - 1) :
        LET r == GetSnapshot(chunks, snapshot_offsets, id)
        IN  ~r.panic =>
                \A k \in 1..Len(r.items) :
                    (r.items[k] % Mutated) <= snapshot_log[id + 1].issued

\* The quota test fails: the arena is at max_items or one more value does
\* not fit in max_memory_bytes.
Exhausted ==
    \/ total_items >= max_items
    \/ total_memory_used + element_size > max_memory_bytes

\* C19: an alloc is rejected only with a quota exhausted, and from then on,
\* whatever snapshots, stores or reads happen, the quota stays exhausted and
\* every step that returns from an alloc is a failure that changes nothing in
\* the arena, until a reset.
C19_RejectionLasts ==
    /\ [](result.op = "alloc" /\ ~result.ok /\ ~result.panic => Exhausted)
    /\ [][Exhausted /\ resets' = resets =>
            /\ Exhausted'
            /\ result'.op = "alloc" /\ result' # result =>
                  /\ ~result'.ok
                  /\ UNCHANGED <<chunks, total_items, total_memory_used>>]_vars

\* C19 witness: after a reset the byte quota alone was exhausted, a snapshot
\* was recorded at that fill level, and the alloc after it was rejected.
C19_Witness ==
    /\ result.op = "alloc" /\ ~result.ok
    /\ resets >= 1
    /\ total_items >= 1
    /\ total_items < max_items
    /\ snapshot_log # <<>>
    /\ snapshot_log[Len(snapshot_log)].resets = resets
    /\ snapshot_log[Len(snapshot_log)].items = total_items

\* C20: a Sequencer with step >= 1 never fails in next; the n-th value it
\* returns is offset + (n - 1) * step and is at most max, after it current()
\* is that value plus step and free() is max - current() or 0 if that is
\* negative; and next returns None only once the following term is past max.
C20_SequencerExact ==
    sq.step >= 1 =>
        /\ sq.ret.kind # "panic"
        /\ sq.ret.kind = "some" =>
              /\ sq.ret.v = sq.start + (sq.count - 1) * sq.step
              /\ sq.ret.v <= sq.max
              /\ Current(sq) = sq.ret.v + sq.step
              /\ Free(sq) = Max(sq.max - Current(sq), 0)
        /\ sq.ret.kind = "none" => sq.start + sq.count * sq.step > sq.max

\* The character of a nibble: '0'-'9' then 'a'-'f'.
HexDigit(n) == IF n < 10 THEN 48 + n ELSE 87 + n

HexDigits == {HexDigit(n) : n \in 0..15}

\* C21: the text of a 10-byte Uuid is 20 characters, two per byte with the
\* high nibble first, all in '0'-'9','a'-'f', and parsing it returns the
\* Uuid; parsing any text returns an error when the text is not 20 bytes long
\* or has a byte outside '0'-'9','a'-'f', and otherwise the value whose text
\* it is.
C21_HexRoundTrip ==
    /\ uuid.phase # "new" /\ uuid.edits = 0 =>
          /\ Len(uuid.value) = 10
          /\ Len(uuid.text) = 20
          /\ \A i \in 1..10 :
                /\ uuid.text[2 * i - 1] = HexDigit(uuid.value[i] \div 16)
                /\ uuid.text[2 * i] = HexDigit(uuid.value[i] % 16)
    /\ uuid.phase = "parsed" =>
          IF /\ Len(uuid.text) = 20
             /\ \A k \in 1..Len(uuid.text) : uuid.text[k] \in HexDigits
          THEN /\ uuid.out[1].ok
               /\ uuid.edits = 0 => uuid.out[1].value = uuid.value
               /\ \A i \in 1..10 :
                     uuid.out[1].value[i] =
                         16 * (CHOOSE n \in 0..15 : HexDigit(n) = uuid.text[2 * i - 1])
                         + (CHOOSE n \in 0..15 : HexDigit(n) = uuid.text[2 * i])
          ELSE ~uuid.out[1].ok

\* C21 witness: a Uuid that starts with byte 0xa5 and has 0xff in its middle
\* was formatted and its unchanged text parsed back.
C21_Witness ==
    /\ uuid.phase = "parsed"
    /\ uuid.edits = 0
    /\ uuid.out[1].ok
    /\ uuid.value[1] = 165
    /\ uuid.value[2] = 255

\* The items of every chunk, capacities left out.
ItemsOf(cs) == [c \in 1..Len(cs) |-> cs[c].items]

\* C22: an accepted alloc appends the value to the last chunk when that chunk
\* has len < capacity and returns (last chunk index, its length before);
\* otherwise it appends a chunk that holds only the value and returns (chunk
\* count before, 0); the chunks before are left as they were.
C22_AllocPlacement ==
    [][result'.op = "alloc" /\ result'.ok /\ total_items' = total_items + 1 =>
        LET n == Len(chunks)
            last == chunks[n]
            value == issued'[Len(issued')].value
        IN  IF Len(last.items) < last.cap
            THEN /\ ItemsOf(chunks') =
                       [ItemsOf(chunks) EXCEPT ![n] = Append(last.items, value)]
                 /\ result'.chunk_index = n - 1
                 /\ result'.element_index = Len(last.items)
            ELSE /\ ItemsOf(chunks') = Append(ItemsOf(chunks), <<value>>)
                 /\ result'.chunk_index = n
                 /\ result'.element_index = 0]_vars

\* C22 witness: the fourth alloc has just opened the third chunk, after the
\* second and third were appended to the second chunk.
C22_Witness ==
    /\ result.op = "alloc" /\ result.ok
    /\ result.chunk_index = 2
    /\ result.element_index = 0
    /\ Len(chunks[2].items) = 2

\* The allocations behind a chunk's values, in order, whatever was written
\* through their references since.
Stored(chunk) == [k \in 1..Len(chunk.items) |-> chunk.items[k] % Mutated]

\* C23: every chunk other than the last is full; and in a step that is not a
\* reset, a chunk that is full or is not the last keeps its length and the
\* order of its values.
C23_FullChunksFrozen ==
    /\ [](\A c \in 1..(Len(chunks) - 1) : Len(chunks[c].items) = chunks[c].cap)
    /\ [][resets' = resets =>
            \A c \in 1..Len(chunks) :
                (Len(chunks[c].items) = chunks[c].cap \/ c < Len(chunks)) =>
                    /\ c <= Len(chunks')
                    /\ Stored(chunks'[c]) = Stored(chunks[c])]_vars

\* C23 witness: two full chunks with a snapshot taken, and an alloc has just
\* gone to a third chunk.
C23_Witness ==
    /\ Len(chunks) = 3
    /\ chunks[1].cap >= 1
    /\ snapshot_offsets # <<>>
    /\ result.op = "alloc" /\ result.ok

\* C24: total_items never exceeds max_items, total_memory_used never exceeds
\* max_memory_bytes, and an arena with max_items 0 has never accepted an
\* alloc.
C24_QuotasHold ==
    /\ total_items <= max_items
    /\ total_memory_used <= max_memory_bytes
    /\ max_items = 0 => issued = <<>>

\* C24 witness: after a reset the arena was filled again until both quotas
\* were reached at once and the next alloc was rejected.
C24_Witness ==
    /\ resets >= 1
    /\ total_items = max_items
    /\ max_items >= 2
    /\ total_memory_used = max_memory_bytes
    /\ result.op = "alloc" /\ ~result.ok

\* (chunk index, count) marks in lexicographic order.
MarkLeq(a, b) == a[1] < b[1] \/ (a[1] = b[1] /\ a[2] <= b[2])

\* Snapshot i's list is the start of snapshot j's list, for every i before j.
Nested ==
    \A j \in 0..(Len(snapshot_offsets) - 1) : \A i \in 0..j :
        LET ri == GetSnapshot(chunks, snapshot_offsets, i)
            rj == GetSnapshot(chunks, snapshot_offsets, j)
        IN  /\ MarkLeq(snapshot_offsets[i + 1], snapshot_offsets[j + 1])
            /\ ~ri.panic /\ ~rj.panic
            /\ Len(ri.items) <= Len(rj.items)
            /\ SubSeq(rj.items, 1, Len(ri.items)) = ri.items

\* get_snapshot of the latest snapshot returns what a full iteration returns.
LatestIsAll ==
    GetSnapshot(chunks, snapshot_offsets, Len(snapshot_offsets) - 1)
        = [panic |-> FALSE, items |-> Drain(chunks, Iter)]

\* C25: while no reset has happened, marks are ordered and each snapshot's
\* list is the start of every later one's; and whenever no alloc has followed
\* the latest snapshot, get_snapshot of it is the full iteration sequence.
C25_SnapshotsNest ==
    /\ resets = 0 => Nested
    /\ (/\ snapshot_offsets # <<>>
        /\ snapshot_log[Len(snapshot_log)].issued = Len(issued)) => LatestIsAll

\* C25 with no reset at any point in both parts.
C25_NestWithoutReset ==
    resets = 0 =>
        /\ Nested
        /\ (/\ snapshot_offsets # <<>>
            /\ snapshot_log[Len(snapshot_log)].issued = Len(issued)) => LatestIsAll

\* ------------------------------------------------------------------ system
\* A new arena; nothing is kept, decoded or sequenced yet.
Init ==
    /\ ArenaNew
    /\ NoReaders
    /\ dec = NoDecoder
    /\ sq = NoSequencer
    /\ uuid = NoUuid

\* Callers that keep no Ref and no iterator across calls.
Next == Alloc \/ Write \/ Snapshot \/ Reset

Spec == Init /\ [][Next]_vars

\* Callers that also keep a Ref<T> from get() and an ArenaIterator.
NextReaders ==
    \/ /\ calls < MaxCallsReaders
       /\ (Alloc \/ Write \/ Snapshot \/ Reset)
    \/ GetKept \/ RefDrop \/ IterNew \/ IterNext \/ IterDrop

\* Arenas of one-byte values whose byte quota never binds before the item
\* quota does.
InitReaders ==
    /\ Init
    /\ element_size = 1
    /\ max_memory_bytes = MaxQuotaBytes
    /\ max_items \in {2, MaxQuotaItems}

SpecReaders == InitReaders /\ [][NextReaders]_vars

\* An arena is used for a few calls, then its encoding is decoded key by key.
NextDecode ==
    \/ /\ dec.phase = "idle"
       /\ calls < MaxCallsEncoded
       /\ (Alloc \/ Write \/ Snapshot \/ Reset)
    \/ VisitKey
    \/ MapEnd

\* Arenas of one-byte values and of at most two items.
InitDecode ==
    /\ Init
    /\ element_size = 1
    /\ max_memory_bytes = MaxQuotaBytes
    /\ max_items = 2
    /\ initial_item_capacity = 1

SpecDecode == InitDecode /\ [][NextDecode]_vars

\* A Sequencer built from any three field values, in either kind of build,
\* beside an arena that is left alone.
InitSequencer ==
    /\ ArenaNew
    /\ initial_item_capacity = 1
    /\ max_items = 0
    /\ max_memory_bytes = 0
    /\ element_size = 1
    /\ NoReaders
    /\ dec = NoDecoder
    /\ \E offset \in 0..(Word - 1), step \in 0..(Word - 1), max \in 0..(Word - 1),
          checked \in BOOLEAN :
           sq = SequencerNew(offset, step, max, checked)
    /\ uuid = NoUuid

NextSequencer == SequencerNext

SpecSequencer == InitSequencer /\ [][NextSequencer]_vars

\* A Uuid of any sampled bytes, beside an arena that is left alone.
InitUuid ==
    /\ ArenaNew
    /\ initial_item_capacity = 1
    /\ max_items = 0
    /\ max_memory_bytes = 0
    /\ element_size = 1
    /\ NoReaders
    /\ dec = NoDecoder
    /\ sq = NoSequencer
    /\ \E a \in ByteSamples, c \in FillBytes :
          uuid = UuidOf([i \in 1..UUID_LEN |->
                            IF i = 1 \/ i = UUID_LEN THEN a ELSE c])

NextUuid == UuidFormat \/ UuidEdit \/ UuidFromStr

SpecUuid == InitUuid /\ [][NextUuid]_vars

====
